---------------------------- MODULE Spec2Model ----------------------------
(***************************************************************************)
(* Model of the road-cell state engine CellMng                             *)
(* (src/traffic_manager/cell_manager.py) and of the road Calibrator        *)
(* (src/road_calibration/__init__.py).                                     *)
(*                                                                         *)
(* One CellMng object and one Calibrator object are modelled; they share   *)
(* no state, and each specification moves one of them.  The attributes of  *)
(* an object are variables (the Calibrator's are the fields of clb), each  *)
(* method is one action.  Python floats are modelled as exact rationals    *)
(* <<numerator, denominator>> in lowest terms with a positive denominator, *)
(* so the arithmetic of the code (+, *, /, abs, comparisons) is computed   *)
(* as written; binary rounding of floats is not modelled.                  *)
(*                                                                         *)
(* The spec's names for the methods are: updateCache = updateCache,        *)
(* updateTraffic = updateTraffic, updateConfidenceRate = updateR1,         *)
(* evaluateDanger = updateDanger, applyUpstreamBoost = updateDangerPassive,*)
(* resetBoostGuard = resetCellDetermineStatus, resetDanger = resetDanger,  *)
(* cacheRetention = cacheRet, boosted = r2added, dangerTimeCap =           *)
(* dangerTimeTop, averageVehicleCount = aveCarNum; ingest = run,           *)
(* partitionAxis = cutPts, dispersion = dbi, cellValidity = cells.         *)
(***************************************************************************)
EXTENDS Integers, Sequences, FiniteSets, TLC

\* ------------------------------------------------------------- bounds
\* At most MaxAppends frames are delivered to the cell in one run.
MaxAppends == 4
\* cacheRet is drawn from 1..MaxCacheRet at construction.
MaxCacheRet == 3
\* updateDanger follows a negative r1 only while dangerTime > -MaxDebt/10.
MaxDebt == 1
\* updateDangerPassive adds r2 only while dangerChange < MaxBoosts * r2.
MaxBoosts == 2
\* run() calls on one Calibrator.
MaxRuns == 3

\* ---------------------------------------------------- rational numbers
Abs(x) == IF x < 0 THEN -x ELSE x

RECURSIVE GCD(_, _)
GCD(a, b) == IF b = 0 THEN a ELSE GCD(b, a % b)

\* n/d in lowest terms, denominator positive (d # 0).
Rat(n, d) ==
    LET s == IF d < 0 THEN -1 ELSE 1
        g == GCD(Abs(n), Abs(d))
    IN  <<(s * n) \div g, (s * d) \div g>>

RInt(i) == <<i, 1>>
RAdd(a, b) == Rat(a[1] * b[2] + b[1] * a[2], a[2] * b[2])
RMul(a, b) == Rat(a[1] * b[1], a[2] * b[2])
RDiv(a, b) == Rat(a[1] * b[2], a[2] * b[1])
RLess(a, b) == a[1] * b[2] < b[1] * a[2]
RAbs(a) == <<Abs(a[1]), a[2]>>
RMin(a, b) == IF RLess(b, a) THEN b ELSE a
Zero == RInt(0)

\* ------------------------------------------ constructor arguments
\* CellMng(laneID, order, valid, len, start, end, tt, fps, qs, r2, vLat,
\* cacheRet): the arguments the model fixes.  cacheRet is a variable, drawn
\* at construction.
order == 7
len == 50
tt == 1
fps == 10
qs == 1000
vLat == 2
r2 == Rat(1, 10)
\* self.r1s = 1 / tt / fps
r1s == RDiv(RDiv(RInt(1), RInt(tt)), RInt(fps))
\* self.dangerTimeTop = 0.5
dangerTimeTop == Rat(1, 2)
\* Calibrator(clbPath, fps, cellLen=cellLen): the length of a cell, in the
\* unit of the y coordinates.
cellLen == 2

\* -------------------------------------------------------------- inputs
\* A vehicle target is a dict; the cell reads car['vx'] and car['vy'].
\* carA drives exactly at the lateral threshold, carB swerves the other way
\* and drives in the opposite longitudinal direction.
carA == [vx |-> vLat, vy |-> 10]
carB == [vx |-> -(vLat + 1), vy |-> -10]
Frames == {<<>>, <<carA>>, <<carB>>, <<carA, carB>>}
\* The frames of the danger axis: empty, nobody swerving, somebody swerving.
DangerFrames == {<<>>, <<carA>>, <<carA, carB>>}
\* Segment flows handed to updateR1 (veh/h): r1 becomes -0.1, 0.1, 0.3.
SegmentFlows == {-1000, 1000, 3000}

\* Targets handed to Calibrator.run.  tC reports lane 2 as 102 and does
\* not move sideways; tD and tF are on lanes 4 and 5; tE is the only one
\* with y > 0; tG is on lane 1; the last three lack a key.
tA == [laneID |-> 2, x |-> 1, y |-> -3, vx |-> 1, vy |-> 1]
tB == [laneID |-> 3, x |-> 2, y |-> -1, vx |-> -1, vy |-> -1]
tC == [laneID |-> 102, x |-> 0, y |-> -1, vx |-> 0, vy |-> -1]
tD == [laneID |-> 4, x |-> 3, y |-> -3, vx |-> 1, vy |-> 0]
tF == [laneID |-> 5, x |-> 3, y |-> -3, vx |-> 1, vy |-> 0]
tE == [laneID |-> 3, x |-> 2, y |-> 1, vx |-> -1, vy |-> 1]
tG == [laneID |-> 1, x |-> 0, y |-> -1, vx |-> 1, vy |-> -1]
tNoLane == [x |-> 1, y |-> -1, vx |-> 1, vy |-> 1]
tNoVx == [laneID |-> 2, x |-> 1, y |-> -1, vy |-> 1]
tNoVy == [laneID |-> 3, x |-> 2, y |-> -3, vx |-> -1]
ClbFrames == {<<tA, tB>>, <<tC, tB, tB, tB, tB>>, <<tD>>, <<tF>>, <<tE>>,
              <<tG, tA>>, <<tNoVx, tB>>, <<tNoLane>>, <<tB, tNoVy>>}

VARIABLES
    cacheRet,       \* self.cacheRet
    cache,          \* self.cache: sequence of frames, oldest first
    q, k, v,        \* self.q, self.k, self.v
    aveCarNum,      \* self.aveCarNum
    r1,             \* self.r1
    dangerTime,     \* self.dangerTime
    dangerChange,   \* self.dangerChange
    danger,         \* self.danger
    r2added,        \* self.r2added
    lastOp,         \* the method called last ("__init__" after construction)
    ret,            \* what that call returned (<<>> for None)
    err,            \* the exception that call raised ("" for none)
    hist,           \* history: every frame handed to updateCache, in order
    nBoost,         \* history: updateDangerPassive calls since the last
                    \* resetCellDetermineStatus (since construction)
    boostedFrames,  \* history: frames closed by resetCellDetermineStatus
                    \* with a boost in them since dangerChange was last
                    \* zeroed
    tainted,        \* history: dangerChange was zeroed after a boost of
                    \* the current frame
    clb,            \* the Calibrator object: a record of its attributes
    clbOp,          \* the Calibrator method called last
    clbErr,         \* the exception that call raised ("" for none)
    clbRet,         \* what save() returned (<<>> for None)
    clbMsg          \* history: the msg handed to the last run() call

cellVars == <<cacheRet, cache, q, k, v, aveCarNum, r1, dangerTime,
              dangerChange, danger, r2added, lastOp, ret, err, hist, nBoost,
              boostedFrames, tainted>>
clbVars == <<clb, clbOp, clbErr, clbRet, clbMsg>>
vars == <<cellVars, clbVars>>

trafficVars == <<q, k, v, aveCarNum>>
dangerVars == <<dangerTime, dangerChange, danger, r2added>>

\* self.danger = self.dangerTime + self.dangerChange
dangerOfTimeOnly(dt, dc) == dt

dangerOf(dt, dc) == RAdd(dt, dc)

\* ---------------------------------------------------------- Calibrator
\* Calibrator.__init__: the attributes the methods below read or write.  A
\* dict is a function on its key set; xyByLane also keeps its keys in
\* insertion order (keys), the order in which a for loop visits them.
\* polyPts and coef are kept as the set of lanes that have an entry: the
\* feature points and the fitted coefficients are numeric results of
\* road_calibration.algorithms and their values are not modelled.
clbInit ==
    [count |-> 0,
     keys |-> <<>>,
     xyByLane |-> <<>>,
     vxyCount |-> <<>>,
     laneIDs |-> <<>>,
     emgcIDs |-> <<>>,
     intID |-> 0,
     extID |-> 0,
     vDirDict |-> <<>>,
     xyMinMax |-> <<>>,
     globalXYMinMax |-> <<>>,
     polyPts |-> {},
     coef |-> {},
     cells |-> <<>>]

\* ---------------------------------------------------------------- Init
Init ==
    /\ cacheRet \in 1..MaxCacheRet
    /\ cache = <<>>
    /\ q = Zero /\ k = Zero /\ v = Zero /\ aveCarNum = Zero
    /\ r1 = Zero
    /\ dangerTime = Zero
    /\ dangerChange = Zero
    /\ danger = dangerOf(Zero, Zero)
    /\ r2added = FALSE
    /\ lastOp = "__init__" /\ ret = <<>> /\ err = ""
    /\ hist = <<>>
    /\ nBoost = 0
    /\ boostedFrames = 0
    /\ tainted = FALSE
    /\ clb = clbInit
    /\ clbOp = "__init__" /\ clbErr = "" /\ clbRet = <<>> /\ clbMsg = <<>>

\* A call that returns None / a call that raises before assigning anything.
returns(op, value) == lastOp' = op /\ ret' = value /\ err' = ""
raises(op, exc) == lastOp' = op /\ ret' = <<>> /\ err' = exc

\* --------------------------------------------------------- updateCache
\* self.cache.append(cars); if len(self.cache) > self.cacheRet: pop(0)
appendEvictNewest(c, cars, retention) ==
    LET c1 == Append(c, cars)
    IN  IF Len(c1) > retention THEN SubSeq(c1, 1, Len(c1) - 1) ELSE c1

appendEvict(c, cars, retention) ==
    LET c1 == Append(c, cars)
    IN  IF Len(c1) > retention THEN Tail(c1) ELSE c1

updateCache(cars) ==
    /\ UNCHANGED clbVars
    /\ Len(hist) < MaxAppends
    /\ cache' = appendEvict(cache, cars, cacheRet)
    /\ hist' = Append(hist, cars)
    /\ returns("updateCache", <<>>)
    /\ UNCHANGED <<cacheRet, trafficVars, r1, dangerVars, nBoost,
                   boostedFrames, tainted>>

\* ------------------------------------------------------- updateTraffic
\* cars = [car for frame in self.cache for car in frame]
RECURSIVE flatten(_)
flatten(c) == IF c = <<>> THEN <<>> ELSE Head(c) \o flatten(Tail(c))

\* sum([car['vy'] for car in cars])
RECURSIVE sumVy(_)
sumVy(cars) == IF cars = <<>> THEN 0 ELSE Head(cars).vy + sumVy(Tail(cars))

baseTOfNonEmpty(c, retention) ==
    LET n == Cardinality({i \in 1..Len(c) : c[i] # <<>>})
    IN  IF n < retention THEN n ELSE retention

\* baseT = len(self.cache) if len(self.cache) < self.cacheRet else cacheRet
baseTOf(c, retention) == IF Len(c) < retention THEN Len(c) ELSE retention

\* abs(sum([car['vy'] for car in cars])) / len(cars)
speedOf(cars) == RDiv(RAbs(RInt(sumVy(cars))), RInt(Len(cars)))

updateTraffic ==
    /\ UNCHANGED clbVars
    /\ LET baseT == baseTOf(cache, cacheRet)
           cars == flatten(cache)
       IN  IF baseT = 0
           THEN \* len(cars) / baseT raises before any attribute is assigned
                /\ raises("updateTraffic", "ZeroDivisionError")
                /\ UNCHANGED <<cacheRet, cache, trafficVars, r1, dangerVars,
                               hist, nBoost, boostedFrames, tainted>>
           ELSE LET ave == RDiv(RInt(Len(cars)), RInt(baseT))
                    k1 == RMul(RDiv(ave, RInt(len)), RInt(1000))
                    v1 == IF ave = Zero THEN Zero ELSE speedOf(cars)
                IN  /\ aveCarNum' = ave
                    /\ k' = k1
                    /\ v' = v1
                    /\ q' = RMul(RMul(k1, v1), Rat(36, 10))
                    /\ returns("updateTraffic", <<>>)
                    /\ UNCHANGED <<cacheRet, cache, r1, dangerVars, hist,
                                   nBoost, boostedFrames, tainted>>

\* ------------------------------------------------------------ updateR1
\* self.r1 = self.r1s * q / self.qs
updateR1ClearsGuard(flow) ==
    /\ UNCHANGED clbVars
    /\ r1' = RDiv(RMul(r1s, RInt(flow)), RInt(qs))
    /\ r2added' = FALSE
    /\ returns("updateR1", <<>>)
    /\ UNCHANGED <<cacheRet, cache, trafficVars, dangerTime, dangerChange,
                   danger, hist, nBoost, boostedFrames, tainted>>

updateR1(flow) ==
    /\ UNCHANGED clbVars
    /\ r1' = RDiv(RMul(r1s, RInt(flow)), RInt(qs))
    /\ returns("updateR1", <<>>)
    /\ UNCHANGED <<cacheRet, cache, trafficVars, dangerVars, hist, nBoost,
                   boostedFrames, tainted>>

\* -------------------------------------------------------- updateDanger
\* self.cache[-1]: the newest frame; IndexError on an empty list.
lastFrameFirst(c) ==
    IF c = <<>> THEN [exc |-> "IndexError", val |-> <<>>]
    ELSE [exc |-> "", val |-> c[1]]

lastFrameOrNone(c) ==
    IF c = <<>> THEN [exc |-> "", val |-> <<>>]
    ELSE [exc |-> "", val |-> c[Len(c)]]

lastFrame(c) ==
    IF c = <<>> THEN [exc |-> "IndexError", val |-> <<>>]
    ELSE [exc |-> "", val |-> c[Len(c)]]

\* for car in self.cache[-1]: if abs(car['vx']) > self.vLat: return True
swervingAtThreshold(frame) ==
    \E i \in 1..Len(frame) : Abs(frame[i].vx) >= vLat

swerving(frame) == \E i \in 1..Len(frame) : Abs(frame[i].vx) > vLat

\* self.dangerTime += self.r1, then the upper limit dangerTimeTop
growTimeNoClamp(dt, rate) == RAdd(dt, rate)

growTimeFrozen(dt, rate) == dt

growTime(dt, rate) ==
    LET grown == RAdd(dt, rate)
    IN  IF RLess(dangerTimeTop, grown) THEN dangerTimeTop ELSE grown

\* Bound of the model: a negative r1 is followed down to -MaxDebt/10 only.
withinDebt ==
    IF lastFrame(cache).exc # "" \/ lastFrame(cache).val # <<>> THEN TRUE
    ELSE IF RLess(r1, Zero) THEN RLess(Rat(-MaxDebt, 10), dangerTime)
    ELSE TRUE

updateDanger ==
    /\ UNCHANGED clbVars
    /\ LET last == lastFrame(cache)
       IN  /\ withinDebt
           /\ IF last.exc # ""
              THEN \* the exception leaves before anything is assigned
                   /\ raises("updateDanger", last.exc)
                   /\ UNCHANGED <<dangerVars, boostedFrames, tainted>>
              ELSE IF Len(last.val) # 0
              THEN /\ dangerTime' = Zero
                   /\ dangerChange' = Zero
                   /\ danger' = Zero
                   /\ r2added' = r2added
                   /\ boostedFrames' = 0
                   /\ tainted' = (nBoost >= 1)
                   /\ returns("updateDanger", <<swerving(last.val), order>>)
              ELSE /\ dangerTime' = growTime(dangerTime, r1)
                   /\ dangerChange' = dangerChange
                   /\ danger' = dangerOf(dangerTime', dangerChange)
                   /\ r2added' = r2added
                   /\ UNCHANGED <<boostedFrames, tainted>>
                   /\ returns("updateDanger", <<FALSE, order>>)
           /\ UNCHANGED <<cacheRet, cache, trafficVars, r1, hist, nBoost>>

\* ------------------------------------------------- updateDangerPassive
updateDangerPassiveUnguarded ==
    /\ UNCHANGED clbVars
    /\ nBoost < MaxBoosts
    /\ RLess(dangerChange, RMul(RInt(MaxBoosts), r2))
    /\ nBoost' = nBoost + 1
    /\ dangerChange' = RAdd(dangerChange, r2)
    /\ r2added' = TRUE
    /\ danger' = dangerOf(dangerTime, dangerChange')
    /\ dangerTime' = dangerTime
    /\ returns("updateDangerPassive", <<>>)
    /\ UNCHANGED <<cacheRet, cache, trafficVars, r1, hist, boostedFrames,
                   tainted>>

updateDangerPassive ==
    /\ UNCHANGED clbVars
    /\ nBoost < MaxBoosts
    /\ r2added \/ RLess(dangerChange, RMul(RInt(MaxBoosts), r2))
    /\ nBoost' = nBoost + 1
    /\ IF ~r2added
       THEN /\ dangerChange' = RAdd(dangerChange, r2)
            /\ r2added' = TRUE
            /\ danger' = dangerOf(dangerTime, dangerChange')
            /\ dangerTime' = dangerTime
       ELSE UNCHANGED dangerVars
    /\ returns("updateDangerPassive", <<>>)
    /\ UNCHANGED <<cacheRet, cache, trafficVars, r1, hist, boostedFrames,
                   tainted>>

\* -------------------------------------------- resetCellDetermineStatus
resetCellDetermineStatusKeepsFlag ==
    /\ UNCHANGED clbVars
    /\ nBoost' = 0
    /\ boostedFrames' = IF nBoost >= 1 /\ ~tainted THEN boostedFrames + 1
                        ELSE boostedFrames
    /\ tainted' = FALSE
    /\ returns("resetCellDetermineStatus", <<>>)
    /\ UNCHANGED <<cacheRet, cache, trafficVars, r1, dangerVars, hist>>

resetCellDetermineStatus ==
    /\ UNCHANGED clbVars
    /\ r2added' = FALSE
    /\ nBoost' = 0
    /\ boostedFrames' = IF nBoost >= 1 /\ ~tainted THEN boostedFrames + 1
                        ELSE boostedFrames
    /\ tainted' = FALSE
    /\ returns("resetCellDetermineStatus", <<>>)
    /\ UNCHANGED <<cacheRet, cache, trafficVars, r1, dangerTime,
                   dangerChange, danger, hist>>

\* --------------------------------------------------------- resetDanger
resetDangerKeepsChange ==
    /\ UNCHANGED clbVars
    /\ dangerTime' = Zero
    /\ danger' = Zero
    /\ boostedFrames' = 0
    /\ tainted' = (nBoost >= 1)
    /\ returns("resetDanger", <<>>)
    /\ UNCHANGED <<cacheRet, cache, trafficVars, r1, dangerChange, r2added,
                   hist, nBoost>>

resetDanger ==
    /\ UNCHANGED clbVars
    /\ dangerTime' = Zero
    /\ dangerChange' = Zero
    /\ danger' = Zero
    /\ boostedFrames' = 0
    /\ tainted' = (nBoost >= 1)
    /\ returns("resetDanger", <<>>)
    /\ UNCHANGED <<cacheRet, cache, trafficVars, r1, r2added, hist, nBoost>>

\* ------------------------------------------------------- Calibrator.run
\* What a method, or a step of one, leaves behind: the attributes as they
\* are when it returns or raises, and the exception ("" for none).
result(c, e) == [cal |-> c, exc |-> e]

\* d[key] = value on a dict.
setItem(d, key, value) ==
    [j \in DOMAIN d \cup {key} |-> IF j = key THEN value ELSE d[j]]

normLaneRaw(t) == t.laneID

\* target['laneID'] - 100 if target['laneID'] > 100 else target['laneID']
normLane(t) == IF t.laneID > 100 THEN t.laneID - 100 ELSE t.laneID

\* The vote update of one axis: the counter is read (a KeyError when the
\* lane has none) only when the velocity component is not zero.
voteAxis(c, laneID, axis, vel) ==
    IF vel = 0 THEN result(c, "")
    ELSE IF laneID \notin DOMAIN c.vxyCount THEN result(c, "KeyError")
    ELSE result([c EXCEPT !.vxyCount[laneID][axis] =
                              IF vel > 0 THEN @ + 1 ELSE @ - 1], "")

\* The body of the loop over msg for one target.  A missing key raises
\* KeyError at the statement that reads it, after the statements before it
\* have taken effect.
runTarget(c, t) ==
    IF "laneID" \notin DOMAIN t THEN result(c, "KeyError") ELSE
    LET laneID == normLane(t)
        c1 == IF laneID \in DOMAIN c.xyByLane THEN c
              ELSE [c EXCEPT !.keys = Append(@, laneID),
                             !.xyByLane = setItem(@, laneID, <<>>),
                             !.vxyCount = setItem(@, laneID,
                                                  [x |-> 0, y |-> 0])]
    IN  IF ~({"x", "y"} \subseteq DOMAIN t) THEN result(c1, "KeyError") ELSE
        LET c2 == [c1 EXCEPT !.xyByLane[laneID] = Append(@, <<t.x, t.y>>)]
        IN  IF "vx" \notin DOMAIN t THEN result(c2, "KeyError") ELSE
            LET rx == voteAxis(c2, laneID, "x", t.vx)
            IN  IF rx.exc # "" THEN rx
                ELSE IF "vy" \notin DOMAIN t THEN result(rx.cal, "KeyError")
                ELSE voteAxis(rx.cal, laneID, "y", t.vy)

\* for target in msg, from the i-th target on; an exception ends the loop.
RECURSIVE runLoop(_, _, _)
runLoop(c, msg, i) ==
    IF i > Len(msg) THEN result(c, "")
    ELSE LET r == runTarget(c, msg[i])
         IN  IF r.exc # "" THEN r ELSE runLoop(r.cal, msg, i + 1)

run(msg) ==
    /\ UNCHANGED cellVars
    /\ clb.count < MaxRuns
    /\ LET r == runLoop([clb EXCEPT !.count = @ + 1], msg, 1)
       IN  /\ clb' = r.cal
           /\ clbErr' = r.exc
    /\ clbOp' = "run"
    /\ clbRet' = <<>>
    /\ clbMsg' = msg

\* ------------------------------------------------- Calibrator.calibrate
maxOf(S) == CHOOSE a \in S : \A b \in S : b <= a
minOf(S) == CHOOSE a \in S : \A b \in S : a <= b

distinguishNormalAndEmgcLanesNoPad(c) ==
    IF c.keys = <<>> THEN result(c, "ValueError")
    ELSE LET m == maxOf(DOMAIN c.xyByLane)
         IN  result([c EXCEPT !.laneIDs = [i \in 1..m |-> i],
                              !.emgcIDs = <<1, m>>], "")

\* Step 1.  max() of no keys raises ValueError.
distinguishNormalAndEmgcLanes(c) ==
    IF c.keys = <<>> THEN result(c, "ValueError")
    ELSE LET top == maxOf(DOMAIN c.xyByLane)
             m == IF top % 2 = 1 THEN top + 1 ELSE top
         IN  result([c EXCEPT !.laneIDs = [i \in 1..m |-> i],
                              !.emgcIDs = <<1, m>>], "")

RECURSIVE sumCoord(_, _)
sumCoord(pts, axis) ==
    IF pts = <<>> THEN 0 ELSE Head(pts)[axis] + sumCoord(Tail(pts), axis)

RECURSIVE sumSquares(_)
sumSquares(pts) ==
    IF pts = <<>> THEN 0
    ELSE Head(pts)[1] * Head(pts)[1] + Head(pts)[2] * Head(pts)[2]
         + sumSquares(Tail(pts))

\* road_calibration.algorithms.dbi: a scalar measure of the scatter of a
\* point set, larger for a more spread set; here the mean squared distance
\* of the points from their centroid (0 for no point).
dbi(pts) ==
    IF pts = <<>> THEN Zero
    ELSE LET n == Len(pts)
             sx == sumCoord(pts, 1)
             sy == sumCoord(pts, 2)
         IN  Rat(n * sumSquares(pts) - sx * sx - sy * sy, n * n)

distinguishInnerAndOutboardLaneIDSwapped(c) ==
    LET lane2 == c.emgcIDs[1] + 1
        laneN_1 == c.emgcIDs[2] - 1
    IN  IF lane2 \notin DOMAIN c.xyByLane \/ laneN_1 \notin DOMAIN c.xyByLane
        THEN result(c, "KeyError")
        ELSE IF RLess(dbi(c.xyByLane[lane2]), dbi(c.xyByLane[laneN_1]))
        THEN result([c EXCEPT !.intID = laneN_1, !.extID = lane2], "")
        ELSE result([c EXCEPT !.intID = lane2, !.extID = laneN_1], "")

\* Step 2.  self.xyByLane[lane] raises KeyError for a lane with no list.
distinguishInnerAndOutboardLaneID(c) ==
    LET lane2 == c.emgcIDs[1] + 1
        laneN_1 == c.emgcIDs[2] - 1
    IN  IF lane2 \notin DOMAIN c.xyByLane \/ laneN_1 \notin DOMAIN c.xyByLane
        THEN result(c, "KeyError")
        ELSE IF RLess(dbi(c.xyByLane[lane2]), dbi(c.xyByLane[laneN_1]))
        THEN result([c EXCEPT !.intID = lane2, !.extID = laneN_1], "")
        ELSE result([c EXCEPT !.intID = laneN_1, !.extID = lane2], "")

dirOfZeroNegative(votes) ==
    [x |-> IF votes.x <= 0 THEN -1 ELSE 1,
     y |-> IF votes.y <= 0 THEN -1 ELSE 1]

\* dir = {'x': 1, 'y': 1}, an axis set to -1 when its vote is negative.
dirOf(votes) ==
    [x |-> IF votes.x < 0 THEN -1 ELSE 1,
     y |-> IF votes.y < 0 THEN -1 ELSE 1]

distinguishLaneDirectionLenient(c) ==
    LET m == c.emgcIDs[2]
        dirAt(id) == IF id \in DOMAIN c.vxyCount THEN dirOf(c.vxyCount[id])
                     ELSE [x |-> 1, y |-> 1]
    IN  IF m = 2
        THEN result([c EXCEPT !.vDirDict = <<>>], "KeyError")
        ELSE result([c EXCEPT !.vDirDict =
                         [id \in 1..m |->
                             IF id = 1 THEN dirAt(2)
                             ELSE IF id = m THEN dirAt(m - 1)
                             ELSE dirAt(id)]], "")

\* Step 3.  vDirDict is emptied, then filled lane by lane in ascending
\* order; self.vxyCount[id] raises KeyError at the first non-emergency lane
\* without a vote counter, and with m = 2 there is no lane 2 entry to copy
\* for lane 1.
distinguishLaneDirection(c) ==
    LET m == c.emgcIDs[2]
        missing == {id \in 2..(m - 1) : id \notin DOMAIN c.vxyCount}
        dirs(upTo) == [id \in 2..upTo |-> dirOf(c.vxyCount[id])]
    IN  IF missing # {}
        THEN result([c EXCEPT !.vDirDict = dirs(minOf(missing) - 1)],
                    "KeyError")
        ELSE IF m = 2
        THEN result([c EXCEPT !.vDirDict = <<>>], "KeyError")
        ELSE result([c EXCEPT !.vDirDict =
                         [id \in 1..m |->
                             IF id = 1 THEN dirOf(c.vxyCount[2])
                             ELSE IF id = m THEN dirOf(c.vxyCount[m - 1])
                             ELSE dirOf(c.vxyCount[id])]], "")

\* list.sort(key=lambda x: x[key]) is stable: a point goes behind the
\* points whose key is not larger.
RECURSIVE sortedInsert(_, _, _)
sortedInsert(s, p, key) ==
    IF s = <<>> \/ s[Len(s)][key] <= p[key] THEN Append(s, p)
    ELSE Append(sortedInsert(SubSeq(s, 1, Len(s) - 1), p, key), s[Len(s)])

RECURSIVE sortPrefix(_, _, _)
sortPrefix(s, key, n) ==
    IF n = 0 THEN <<>> ELSE sortedInsert(sortPrefix(s, key, n - 1), s[n], key)

sortByKey(s, key) == sortPrefix(s, key, Len(s))

smaller(a, b) == IF b < a THEN b ELSE a
larger(a, b) == IF b > a THEN b ELSE a

\* for lane in self.xyByLane, from the i-th key on.  The list is sorted in
\* place; [0] on an empty list raises IndexError.
RECURSIVE calibLane(_, _)
calibLane(c, i) ==
    IF i > Len(c.keys) THEN result(c, "")
    ELSE LET lane == c.keys[i]
             byX == sortByKey(c.xyByLane[lane], 1)
         IN  IF byX = <<>> THEN result(c, "IndexError")
             ELSE LET byY == sortByKey(byX, 2)
                      box == <<byX[1][1], byX[Len(byX)][1],
                               byY[1][2], byY[Len(byY)][2]>>
                      g == c.globalXYMinMax
                  IN  calibLane(
                          [c EXCEPT !.xyByLane[lane] = byY,
                                    !.xyMinMax = setItem(@, lane, box),
                                    !.globalXYMinMax =
                                        <<smaller(g[1], box[1]),
                                          larger(g[2], box[2]),
                                          smaller(g[3], box[3]),
                                          larger(g[4], box[4])>>],
                          i + 1)

\* Step 4.
calibXYMinMax(c) ==
    calibLane([c EXCEPT !.xyMinMax = <<>>,
                        !.globalXYMinMax = <<0, 0, 0, 0>>], 1)

\* Step 5.  polyPts gets an entry for each non-emergency lane, in
\* ascending order (calQuartiles of road_calibration.algorithms computes
\* its value).
getLaneQuartilesPoints(c) ==
    LET m == c.emgcIDs[2]
        missing == {id \in 2..(m - 1) : id \notin DOMAIN c.xyByLane}
    IN  IF missing # {}
        THEN result([c EXCEPT !.polyPts = 2..(minOf(missing) - 1)],
                    "KeyError")
        ELSE result([c EXCEPT !.polyPts = 2..(m - 1)], "")

\* Step 6.  coef gets an entry for every lane (poly2fit and poly2fitFrozen
\* of road_calibration.algorithms compute the values from polyPts).
calculateLanesFunction(c) ==
    IF c.extID \notin c.polyPts \/ c.intID \notin c.polyPts
    THEN result([c EXCEPT !.coef = {}], "KeyError")
    ELSE result([c EXCEPT !.coef = 1..c.emgcIDs[2]], "")

\* road_calibration.algorithms.cutPts: ceil((max - min) / step) + 1 points
\* from min to max, step apart except for the last one, which is max.
cutPts(ymin, ymax, step) ==
    LET n == (ymax - ymin + step - 1) \div step
    IN  [i \in 1..(n + 1) |-> IF i = n + 1 THEN ymax
                              ELSE ymin + (i - 1) * step]

\* self.xyByLane.setdefault(id, []) for the lanes id..upTo.
RECURSIVE setdefaults(_, _, _)
setdefaults(c, id, upTo) ==
    IF id > upTo THEN c
    ELSE setdefaults(IF id \in DOMAIN c.xyByLane THEN c
                     ELSE [c EXCEPT !.keys = Append(@, id),
                                    !.xyByLane = setItem(@, id, <<>>)],
                     id + 1, upTo)

Reverse(s) == [i \in 1..Len(s) |-> s[Len(s) + 1 - i]]

validShareAtLeast(x, total, cellNum) ==
    ~RLess(RDiv(RInt(x), RInt(total)),
           RDiv(RDiv(RInt(1), RInt(cellNum)), RInt(5)))

\* x / sum(cellCount[id]) > 1 / cellNum / 5
validShare(x, total, cellNum) ==
    RLess(RDiv(RDiv(RInt(1), RInt(cellNum)), RInt(5)),
          RDiv(RInt(x), RInt(total)))

\* Step 7.  The counting loop visits the lanes in ascending order and
\* count[order] raises IndexError for an order outside the list; order -1
\* is Python's last element.  The validity loop divides by the lane's
\* total.  self.cells keeps the entries of lanes it does not assign.
calibCells(c) ==
    LET ymin == c.globalXYMinMax[3]
        ymax == c.globalXYMinMax[4]
        pts == cutPts(ymin, ymax, cellLen)
        cellNum == Len(pts) - 1
        m == Len(c.laneIDs)
        orderOf(xy) == Cardinality({i \in 1..Len(pts) : xy[2] >= pts[i]}) - 1
        indexOf(xy) == IF orderOf(xy) < 0 THEN orderOf(xy) + cellNum
                       ELSE orderOf(xy)
        outside(xy) == cellNum = 0 \/ orderOf(xy) >= cellNum
        bad == {id \in 1..m :
                   /\ id \in DOMAIN c.xyByLane
                   /\ \E j \in 1..Len(c.xyByLane[id]) :
                          outside(c.xyByLane[id][j])}
        cellCount(id, cell) ==
            Cardinality({j \in 1..Len(c.xyByLane[id]) :
                            indexOf(c.xyByLane[id][j]) = cell - 1})
        total(id) == IF id \in DOMAIN c.xyByLane THEN Len(c.xyByLane[id])
                     ELSE 0
        valid(id) == [cell \in 1..cellNum |->
                         validShare(cellCount(id, cell), total(id), cellNum)]
        directed(id) == IF c.vDirDict[id].y < 0 THEN Reverse(valid(id))
                        ELSE valid(id)
        empty == {id \in 2..(m - 1) : total(id) = 0}
        counted == setdefaults(c, 1, m)
    IN  IF bad # {}
        THEN result(setdefaults(c, 1, minOf(bad)), "IndexError")
        ELSE IF cellNum > 0 /\ empty # {}
        THEN result([counted EXCEPT !.cells =
                        [id \in DOMAIN c.cells \cup 2..(minOf(empty) - 1) |->
                            IF id \in 2..(minOf(empty) - 1) THEN directed(id)
                            ELSE c.cells[id]]],
                    "ZeroDivisionError")
        ELSE result([counted EXCEPT !.cells =
                        [id \in DOMAIN c.cells \cup 1..m |->
                            IF id \in 2..(m - 1) THEN directed(id)
                            ELSE IF id \in {1, m}
                            THEN [cell \in 1..cellNum |-> FALSE]
                            ELSE c.cells[id]]], "")

\* The seven steps in order; a step that raises ends the call and leaves
\* the attributes as the steps so far have set them.
calibrate ==
    /\ UNCHANGED cellVars
    /\ LET s1 == distinguishNormalAndEmgcLanes(clb)
           s2 == IF s1.exc # "" THEN s1
                 ELSE distinguishInnerAndOutboardLaneID(s1.cal)
           s3 == IF s2.exc # "" THEN s2 ELSE distinguishLaneDirection(s2.cal)
           s4 == IF s3.exc # "" THEN s3 ELSE calibXYMinMax(s3.cal)
           s5 == IF s4.exc # "" THEN s4 ELSE getLaneQuartilesPoints(s4.cal)
           s6 == IF s5.exc # "" THEN s5 ELSE calculateLanesFunction(s5.cal)
           s7 == IF s6.exc # "" THEN s6 ELSE calibCells(s6.cal)
       IN  /\ clb' = s7.cal
           /\ clbErr' = s7.exc
    /\ clbOp' = "calibrate"
    /\ clbRet' = <<>>
    /\ clbMsg' = <<>>

\* ------------------------------------------------------ Calibrator.save
laneClbNoSwap(c, id) ==
    [emgc |-> \E j \in 1..Len(c.emgcIDs) : c.emgcIDs[j] = id,
     vDir |-> c.vDirDict[id],
     start |-> c.globalXYMinMax[3],
     len |-> Abs(c.globalXYMinMax[3] - c.globalXYMinMax[4]),
     end |-> c.globalXYMinMax[4],
     cells |-> c.cells[id]]

\* One laneClb; its coef entry, the rounded coefficients, is left out.
laneClb(c, id) ==
    LET ymin == c.globalXYMinMax[3]
        ymax == c.globalXYMinMax[4]
        back == c.vDirDict[id].y < 0
        start == IF back THEN ymax ELSE ymin
        end == IF back THEN ymin ELSE ymax
    IN  [emgc |-> \E j \in 1..Len(c.emgcIDs) : c.emgcIDs[j] = id,
         vDir |-> c.vDirDict[id],
         start |-> start,
         len |-> Abs(start - end),
         end |-> end,
         cells |-> c.cells[id]]

\* globalXYMinMax[2] on the empty list raises IndexError; a lane without a
\* vDirDict, coef or cells entry raises KeyError.  The file is written, and
\* clb returned, only after the loop over laneIDs has finished: what
\* save() returns is what it has written.
save ==
    /\ UNCHANGED cellVars
    /\ IF clb.globalXYMinMax = <<>>
       THEN clbErr' = "IndexError" /\ clbRet' = <<>>
       ELSE IF \E id \in 1..Len(clb.laneIDs) :
                   \/ id \notin DOMAIN clb.vDirDict
                   \/ id \notin clb.coef
                   \/ id \notin DOMAIN clb.cells
       THEN clbErr' = "KeyError" /\ clbRet' = <<>>
       ELSE /\ clbErr' = ""
            /\ clbRet' = [id \in 1..Len(clb.laneIDs) |-> laneClb(clb, id)]
    /\ clbOp' = "save"
    /\ clbMsg' = <<>>
    /\ UNCHANGED clb

\* ------------------------------------------------------ specifications
\* The whole cell: every method, in any order.  To keep the product of the
\* two axes small it sees two kinds of frame and one segment flow.
Next ==
    \/ \E cars \in {<<>>, <<carA, carB>>} : updateCache(cars)
    \/ updateTraffic
    \/ updateR1(3000)
    \/ updateDanger
    \/ updateDangerPassive
    \/ resetCellDetermineStatus
    \/ resetDanger

Spec == Init /\ [][Next]_vars

\* The cache axis: frames arrive and the traffic metrics are refreshed.
NextCache ==
    \/ \E cars \in Frames : updateCache(cars)
    \/ updateTraffic

SpecCache == Init /\ [][NextCache]_vars

\* The danger axis: frames arrive, the rate is set, danger is evaluated,
\* boosted and reset, in any order.  The cell keeps MaxCacheRet frames.
InitDanger == Init /\ cacheRet = MaxCacheRet

NextDanger ==
    \/ \E cars \in DangerFrames : updateCache(cars)
    \/ \E flow \in SegmentFlows : updateR1(flow)
    \/ updateDanger
    \/ updateDangerPassive
    \/ resetCellDetermineStatus
    \/ resetDanger

SpecDanger == InitDanger /\ [][NextDanger]_vars

\* The frame loop going quiet.  The rate is set once, to 0.1 or 0.3, and
\* never again.  Then frames arrive one at a time, each followed by one
\* updateDanger ("updateDanger is called every frame", docstring of
\* updateDangerPassive); after an evaluation the danger may be reset.  The
\* first MaxAppends frames are arbitrary; from then on every frame is empty
\* and nobody resets, and hist is the window of the last MaxAppends frames.
updateCacheQuiet ==
    /\ UNCHANGED clbVars
    /\ Len(hist) >= MaxAppends
    /\ cache' = appendEvict(cache, <<>>, cacheRet)
    /\ hist' = Append(Tail(hist), <<>>)
    /\ returns("updateCache", <<>>)
    /\ UNCHANGED <<cacheRet, trafficVars, r1, dangerVars, nBoost,
                   boostedFrames, tainted>>

awaitingFrame == lastOp \in {"updateR1", "updateDanger", "resetDanger"}

setRate(flow) == lastOp = "__init__" /\ updateR1(flow)
frameArrives(cars) == awaitingFrame /\ updateCache(cars)
quietFrameArrives == awaitingFrame /\ updateCacheQuiet
frameEvaluated == lastOp = "updateCache" /\ updateDanger
dangerReset ==
    lastOp = "updateDanger" /\ Len(hist) < MaxAppends /\ resetDanger

NextQuiet ==
    \/ \E flow \in {1000, 3000} : setRate(flow)
    \/ \E cars \in DangerFrames : frameArrives(cars)
    \/ quietFrameArrives
    \/ frameEvaluated
    \/ dangerReset

SpecQuiet ==
    /\ Init
    /\ [][NextQuiet]_vars
    /\ WF_vars(\E flow \in {1000, 3000} : setRate(flow))
    /\ WF_vars((\E cars \in DangerFrames : frameArrives(cars))
                   \/ quietFrameArrives)
    /\ WF_vars(frameEvaluated)

\* The Calibrator alone: up to MaxRuns frames handed to run(), with
\* calibrate() and save() called at any point between them.
InitCalib == Init /\ cacheRet = 1

NextCalib ==
    \/ \E msg \in ClbFrames : run(msg)
    \/ calibrate
    \/ save

SpecCalib == InitCalib /\ [][NextCalib]_vars

\* ================================================================ claims
\* The cell attributes, without the history variables and the call record.
cellState == <<cacheRet, cache, q, k, v, aveCarNum, r1, dangerTime,
               dangerChange, danger, r2added>>

\* The last n frames of h, in arrival order.
lastFrames(h, n) == SubSeq(h, Len(h) - n + 1, Len(h))

\* C1: the cache never holds more than cacheRet frames, and once cacheRet
\* or more frames have been appended it holds exactly the last cacheRet
\* appended frames, in arrival order.
C1_CacheIsLastFrames ==
    /\ Len(cache) <= cacheRet
    /\ Len(hist) >= cacheRet =>
           /\ Len(cache) = cacheRet
           /\ cache = lastFrames(hist, cacheRet)

\* C1 witness: a cell of retention 3 after 4 appends; the oldest frame, a
\* non-empty one, has been evicted and the cache is the other three.
C1_Witness ==
    /\ cacheRet = 3
    /\ Len(hist) = 4
    /\ hist[1] # <<>>
    /\ hist[1] # hist[4]
    /\ cache = Tail(hist)

\* C2: in every reachable state dangerTime lies in [0, dangerTimeTop].
C2_DangerTimeInRange ==
    /\ ~RLess(dangerTime, Zero)
    /\ ~RLess(dangerTimeTop, dangerTime)

\* C3: danger = dangerTime + dangerChange at construction and after every
\* call (so after every updateDanger on each of its return paths, every
\* updateDangerPassive and every resetDanger).
C3_DangerIsSum == danger = RAdd(dangerTime, dangerChange)

\* C3 witness: updateDanger has just left by its early return (a swerving
\* vehicle) in a frame in which the cell had been boosted.
C3_Witness ==
    /\ lastOp = "updateDanger"
    /\ ret = <<TRUE, order>>
    /\ r2added
    /\ danger = Zero

\* C4: updateDangerPassive adds r2 to dangerChange exactly when r2added is
\* not set, and sets it; with r2added set it changes nothing of the cell;
\* and only resetCellDetermineStatus clears r2added.  So any number of
\* calls without a resetCellDetermineStatus between them adds r2 once.
C4_BoostOncePerFrame ==
    [][ /\ (lastOp' = "updateDangerPassive" /\ r2added)
            => UNCHANGED cellState
        /\ (lastOp' = "updateDangerPassive" /\ ~r2added)
            => /\ dangerChange' = RAdd(dangerChange, r2)
               /\ r2added'
               /\ UNCHANGED <<cacheRet, cache, q, k, v, aveCarNum, r1,
                              dangerTime>>
        /\ (r2added /\ ~r2added')
            => lastOp' = "resetCellDetermineStatus" ]_vars

\* C4 witness: the second call since the last resetCellDetermineStatus has
\* returned and dangerChange holds r2 once.
C4_Witness ==
    /\ lastOp = "updateDangerPassive"
    /\ nBoost = 2
    /\ r2added
    /\ dangerChange = r2

\* Some vehicle of the frame is faster sideways than vLat, in either
\* direction.
someLateral(frame) ==
    \E i \in 1..Len(frame) : frame[i].vx > vLat \/ frame[i].vx < -vLat

\* C5: after updateDanger on a cell whose newest frame is non-empty,
\* dangerTime, dangerChange and danger are 0 and the call returned
\* (b, order), b being whether some vehicle of the newest frame has
\* |vx| > vLat; no other frame of the cache enters.
C5_NonEmptyFrameResets ==
    (lastOp = "updateDanger" /\ cache # <<>>) =>
        (cache[Len(cache)] # <<>> =>
            /\ err = ""
            /\ dangerTime = Zero
            /\ dangerChange = Zero
            /\ danger = Zero
            /\ ret = <<someLateral(cache[Len(cache)]), order>>)

\* C5 witness: the newest frame holds one vehicle exactly at the threshold,
\* the frame before it holds a swerving one, and the call returned false.
C5_Witness ==
    /\ lastOp = "updateDanger"
    /\ Len(cache) >= 2
    /\ cache[Len(cache)] = <<carA>>
    /\ cache[Len(cache) - 1] = <<carA, carB>>
    /\ ret = <<FALSE, order>>

\* C6: updateDanger on a cell whose newest frame is empty sets dangerTime
\* to min(dangerTime + r1, dangerTimeTop), leaves dangerChange, sets
\* danger to their sum and returns (false, order).
C6_EmptyFrameGrows ==
    [][ (lastOp' = "updateDanger" /\ cache # <<>>) =>
            (cache[Len(cache)] = <<>> =>
                /\ dangerTime' = RMin(RAdd(dangerTime, r1), dangerTimeTop)
                /\ dangerChange' = dangerChange
                /\ danger' = RAdd(dangerTime', dangerChange')
                /\ ret' = <<FALSE, order>>
                /\ err' = "") ]_vars

\* C6 witness: an empty newest frame, r1 = 0.3, and the sum was cut to the
\* cap while the cell carries a boost.
C6_Witness ==
    /\ lastOp = "updateDanger"
    /\ cache # <<>>
    /\ cache[Len(cache)] = <<>>
    /\ r1 = Rat(3, 10)
    /\ dangerTime = dangerTimeTop
    /\ dangerChange = r2
    /\ danger = Rat(6, 10)

\* The scenario of C7 just before its updateDanger call: retention 3,
\* r1 = 0.1, the frames [carA], [], [] appended, the danger state as
\* constructed.
C7_Scenario ==
    /\ cacheRet = 3
    /\ r1 = Rat(1, 10)
    /\ hist = <<<<carA>>, <<>>, <<>>>>
    /\ cache = hist
    /\ dangerTime = Zero /\ dangerChange = Zero /\ danger = Zero
    /\ ~r2added

\* C7 as claimed: in the scenario updateDanger returns (false, order) and
\* leaves dangerTime = 0.2.
C7_AsClaimed ==
    [][ (C7_Scenario /\ lastOp' = "updateDanger") =>
            (ret' = <<FALSE, order>> /\ dangerTime' = Rat(2, 10)) ]_vars

\* C7 amended: in the scenario updateDanger returns (false, order) and
\* leaves dangerTime = 0.1: one call adds r1 once, however many empty
\* frames the cache holds.
C7_OneCallAddsOnce ==
    [][ (C7_Scenario /\ lastOp' = "updateDanger") =>
            (ret' = <<FALSE, order>> /\ dangerTime' = Rat(1, 10)
             /\ danger' = Rat(1, 10)) ]_vars

\* C7 witness: the scenario's call has returned.
C7_Witness ==
    /\ lastOp = "updateDanger"
    /\ cacheRet = 3
    /\ r1 = Rat(1, 10)
    /\ hist = <<<<carA>>, <<>>, <<>>>>
    /\ ret = <<FALSE, order>>
    /\ dangerTime = Rat(1, 10)
    /\ dangerChange = Zero

\* The sum of |vy| over the vehicles.
RECURSIVE sumAbsVy(_)
sumAbsVy(cars) ==
    IF cars = <<>> THEN 0 ELSE Abs(Head(cars).vy) + sumAbsVy(Tail(cars))

\* The mean of |vy| over the vehicles, 0 when there are none.
meanAbsVy(cars) ==
    IF cars = <<>> THEN Zero ELSE Rat(sumAbsVy(cars), Len(cars))

\* C8: after updateTraffic, v is 0 when the cache holds no vehicles and
\* otherwise the mean of |vy| over all cached vehicles, and q = k*v*3.6.
C8_MeanAbsSpeed ==
    (lastOp = "updateTraffic" /\ err = "") =>
        /\ v = meanAbsVy(flatten(cache))
        /\ q = RMul(RMul(k, v), Rat(36, 10))

\* C9: updateTraffic on a cell whose cache was never populated raises
\* nothing and leaves k = v = q = 0.
C9_NoErrorOnEmptyCache ==
    (lastOp = "updateTraffic" /\ hist = <<>>) =>
        (err = "" /\ k = Zero /\ v = Zero /\ q = Zero)

\* C10: updateDanger before any updateCache call fails (the code's
\* self.cache[-1] raises IndexError, the failure the spec names
\* EmptyCacheError) and leaves dangerTime, dangerChange, danger and r2added
\* unchanged.
C10_EmptyCacheFails ==
    [][ (lastOp' = "updateDanger" /\ hist = <<>>) =>
            (err' = "IndexError" /\ UNCHANGED dangerVars) ]_vars

\* C10 witness: the call has failed on a never-populated cache of a cell
\* that carried a boost, which it still carries.
C10_Witness ==
    /\ lastOp = "updateDanger"
    /\ hist = <<>>
    /\ err = "IndexError"
    /\ r2added
    /\ dangerChange = r2
    /\ danger = r2

\* The lane ids run() has seen so far: run() alone creates vote counters.
observed == DOMAIN clb.vxyCount

\* The smallest even number >= the largest observed lane id.
evenTop ==
    LET top == CHOOSE a \in observed : \A b \in observed : b <= a
    IN  CHOOSE e \in {top, top + 1} : e % 2 = 0

\* C11: after calibrate() (whenever there is a lane id to take a maximum
\* of) laneIDs is 1..m and emgcIDs is [1, m], m being the smallest even
\* number >= the largest observed normalised lane id; and after a
\* calibrate() that returned, every cells entry of lanes 1 and m is false.
C11_LanesAndEmergency ==
    (clbOp = "calibrate" /\ clbErr # "ValueError") =>
        /\ clb.laneIDs = [i \in 1..evenTop |-> i]
        /\ clb.emgcIDs = <<1, evenTop>>
        /\ clbErr = "" =>
               \A id \in {1, evenTop} :
                   \A cell \in 1..Len(clb.cells[id]) : ~clb.cells[id][cell]

\* C11 witness: lanes 2, 3 and 4 were observed (4 is even and is itself
\* the outer emergency lane, with a sample of its own), calibrate()
\* returned, and lanes 1 and 4 have two cells each, all false, while lane 2
\* has a valid one.
C11_Witness ==
    /\ clbOp = "calibrate" /\ clbErr = ""
    /\ observed = {2, 3, 4}
    /\ clb.xyByLane[4] # <<>>
    /\ clb.laneIDs = <<1, 2, 3, 4>>
    /\ clb.emgcIDs = <<1, 4>>
    /\ clb.cells[1] = <<FALSE, FALSE>>
    /\ clb.cells[4] = <<FALSE, FALSE>>
    /\ clb.cells[2][1]

\* C12: after a calibrate() that got past direction inference, each
\* non-emergency lane's direction is -1 on an axis whose vote is negative
\* and +1 otherwise (so +1 for a vote of 0), lane 1 has lane 2's direction
\* and lane m has lane m-1's.
C12_Directions ==
    (clbOp = "calibrate" /\ clbErr \notin {"ValueError", "KeyError"}) =>
        LET m == clb.emgcIDs[2]
        IN  /\ DOMAIN clb.vDirDict = 1..m
            /\ \A id \in 2..(m - 1) :
                   /\ clb.vDirDict[id].x =
                          (IF clb.vxyCount[id].x < 0 THEN -1 ELSE 1)
                   /\ clb.vDirDict[id].y =
                          (IF clb.vxyCount[id].y < 0 THEN -1 ELSE 1)
            /\ clb.vDirDict[1] = clb.vDirDict[2]
            /\ clb.vDirDict[m] = clb.vDirDict[m - 1]

\* C12 witness: lane 3 has votes x = -4 and direction x = -1, lane 2 has a
\* vote x = 0 and direction x = +1, and lanes 1 and 4 carry the copies.
C12_Witness ==
    /\ clbOp = "calibrate" /\ clbErr = ""
    /\ observed = {2, 3}
    /\ clb.vxyCount[3].x = -4
    /\ clb.vDirDict[3] = [x |-> -1, y |-> -1]
    /\ clb.vxyCount[2].x = 0
    /\ clb.vDirDict[2] = [x |-> 1, y |-> -1]
    /\ clb.vDirDict[1] = [x |-> 1, y |-> -1]
    /\ clb.vDirDict[4] = [x |-> -1, y |-> -1]

\* The keys run() reads of a target.
hasAllKeys(t) == {"laneID", "x", "y", "vx", "vy"} \subseteq DOMAIN t

\* The lane a record belongs to: ids k and k + 100 are the same lane.
laneOf(t) == IF t.laneID > 100 THEN t.laneID - 100 ELSE t.laneID

\* The (x, y) of the records of msg on lane l, in arrival order.
samplesOf(msg, l) ==
    LET onLane(t) == laneOf(t) = l
        sel == SelectSeq(msg, onLane)
    IN  [i \in 1..Len(sel) |-> <<sel[i].x, sel[i].y>>]

signOf(a) == IF a > 0 THEN 1 ELSE IF a < 0 THEN -1 ELSE 0

\* The sum over the records of msg on lane l of the sign of the velocity
\* component vel ("vx" or "vy").
RECURSIVE votesOf(_, _, _)
votesOf(msg, l, vel) ==
    IF msg = <<>> THEN 0
    ELSE (IF laneOf(Head(msg)) = l THEN signOf(Head(msg)[vel]) ELSE 0)
         + votesOf(Tail(msg), l, vel)

samplesBefore(c, l) == IF l \in DOMAIN c.xyByLane THEN c.xyByLane[l] ELSE <<>>
votesBefore(c, l) ==
    IF l \in DOMAIN c.vxyCount THEN c.vxyCount[l] ELSE [x |-> 0, y |-> 0]

\* What a frame's records add to the accumulators: every lane of the frame
\* has a sample list and a vote counter afterwards, each list is the old
\* one (empty for a new lane) followed by the lane's samples in arrival
\* order, each counter the old one (0, 0 for a new lane) plus the signs.
ingested(before, after, msg) ==
    LET lanes == {laneOf(msg[i]) : i \in 1..Len(msg)}
    IN  /\ DOMAIN after.xyByLane = DOMAIN before.xyByLane \cup lanes
        /\ DOMAIN after.vxyCount = DOMAIN before.vxyCount \cup lanes
        /\ \A l \in DOMAIN after.xyByLane :
               after.xyByLane[l] = samplesBefore(before, l) \o samplesOf(msg, l)
        /\ \A l \in DOMAIN after.vxyCount :
               /\ after.vxyCount[l].x
                      = votesBefore(before, l).x + votesOf(msg, l, "vx")
               /\ after.vxyCount[l].y
                      = votesBefore(before, l).y + votesOf(msg, l, "vy")

nextTop ==
    LET top == CHOOSE a \in DOMAIN clb.xyByLane :
                   \A b \in DOMAIN clb.xyByLane : b <= a
    IN  IF top % 2 = 1 THEN top + 1 ELSE top

\* Lane id has no sample: never seen, or its list is empty.
noSamples(id) == id \notin DOMAIN clb.xyByLane \/ clb.xyByLane[id] = <<>>

\* C14: calibrate() called when some lane of 2..m-1 has no sample fails
\* (the code's KeyError, the failure the spec names InsufficientDataError)
\* and returns nothing, and a save() that follows the failed calibrate()
\* fails too and returns, hence writes, no record for any lane.
C14_InsufficientData ==
    [][ /\ ( /\ clbOp' = "calibrate"
             /\ clb.keys # <<>>
             /\ \E id \in 2..(nextTop - 1) : noSamples(id) )
           => (clbErr' = "KeyError" /\ clbRet' = <<>>)
        /\ (clbOp = "calibrate" /\ clbErr = "KeyError" /\ clbOp' = "save")
           => (clbErr' # "" /\ clbRet' = <<>>) ]_vars

\* C14 witness: after a calibration of lanes 2 and 3 that succeeded, lane 5
\* was seen; lane 4, now a non-emergency lane, has an empty list; the
\* second calibrate() stopped in direction inference and the save() after
\* it failed, although cells and coefficients of the first calibration
\* are still there.
C14_Witness ==
    /\ clbOp = "save" /\ clbErr = "KeyError" /\ clbRet = <<>>
    /\ clb.laneIDs = <<1, 2, 3, 4, 5, 6>>
    /\ observed = {2, 3, 5}
    /\ clb.xyByLane[4] = <<>>
    /\ DOMAIN clb.vDirDict = {2, 3}
    /\ DOMAIN clb.cells = 1..4
    /\ clb.coef = 1..4

\* The first record of msg that lacks the lane id or a velocity field
\* (Len(msg) + 1 if there is none).
firstMalformed(msg) ==
    LET lacking == {i \in 1..Len(msg) :
                       ~({"laneID", "vx", "vy"} \subseteq DOMAIN msg[i])}
    IN  IF lacking = {} THEN Len(msg) + 1
        ELSE CHOOSE i \in lacking : \A j \in lacking : i <= j

\* C15: run(msg) on a frame with a record that lacks the lane id or a
\* velocity field fails, and the accumulators are then as the complete
\* records before it leave them: the malformed record adds no sample and
\* changes no vote.
C15_MalformedDropped ==
    [][ ( /\ clbOp' = "run"
          /\ firstMalformed(clbMsg') <= Len(clbMsg')
          /\ DOMAIN clb.xyByLane = DOMAIN clb.vxyCount )
        => /\ clbErr' # ""
           /\ ingested(clb, clb',
                       SubSeq(clbMsg', 1, firstMalformed(clbMsg') - 1)) ]_vars

\* C16: after a calibrate() that returned, each non-emergency lane has one
\* cells entry per cell; in ascending y the entry of a cell is true exactly
\* when count / total > 1 / (cellCount * 5), count being the lane's samples
\* with y in [cut point, next cut point) and total the lane's samples; the
\* list is in that order for y direction +1 and reversed for -1.
C16_CellValidity ==
    (clbOp = "calibrate" /\ clbErr = "") =>
        LET m == clb.emgcIDs[2]
            pts == cutPts(clb.globalXYMinMax[3], clb.globalXYMinMax[4],
                          cellLen)
            cellCount == Len(pts) - 1
            inCell(id, cell) ==
                Cardinality({j \in 1..Len(clb.xyByLane[id]) :
                                /\ pts[cell] <= clb.xyByLane[id][j][2]
                                /\ clb.xyByLane[id][j][2] < pts[cell + 1]})
            ascending(id, cell) ==
                inCell(id, cell) * cellCount * 5 > Len(clb.xyByLane[id])
        IN  \A id \in 2..(m - 1) :
                /\ Len(clb.cells[id]) = cellCount
                /\ \A cell \in 1..cellCount :
                       clb.cells[id][cell] =
                           IF clb.vDirDict[id].y = 1
                           THEN ascending(id, cell)
                           ELSE ascending(id, cellCount + 1 - cell)

\* C16 witness: two cells; lane 3 runs in -y and has one of its ten
\* samples in the lower cell, a share of exactly 1/10, which is not
\* valid, and nine in the upper cell: its list is (true, false), the
\* reverse of the ascending one; lane 2 runs in -y too with both samples in
\* the upper cell.
C16_Witness ==
    /\ clbOp = "calibrate" /\ clbErr = ""
    /\ clb.globalXYMinMax[3] = -3 /\ clb.globalXYMinMax[4] = 0
    /\ Len(clb.xyByLane[3]) = 10
    /\ clb.xyByLane[3][1][2] = -3
    /\ clb.xyByLane[3][2][2] = -1
    /\ clb.vDirDict[3].y = -1
    /\ clb.cells[3] = <<TRUE, FALSE>>
    /\ clb.cells[2] = <<TRUE, FALSE>>

\* C17: resetCellDetermineStatus clears r2added, so each frame that holds at
\* least one updateDangerPassive call and is closed by one
\* resetCellDetermineStatus adds r2 once: as long as no resetDanger and no
\* updateDanger on a non-empty newest frame has zeroed dangerChange since
\* the frame's boost, dangerChange is r2 times the number of boosted frames
\* since it was last zero (the closed ones plus the open one), so a run of n
\* such frames raises it by exactly n * r2.
C17_FramesAddR2Each ==
    /\ lastOp = "resetCellDetermineStatus" => ~r2added
    /\ ~tainted =>
           dangerChange =
               RMul(RInt(boostedFrames + (IF nBoost >= 1 THEN 1 ELSE 0)), r2)

\* C17 witness: two boosted frames have been closed by
\* resetCellDetermineStatus with no zeroing between them, and dangerChange
\* is 2 * r2.
C17_Witness ==
    /\ lastOp = "resetCellDetermineStatus"
    /\ boostedFrames = 2
    /\ ~tainted
    /\ dangerChange = RMul(RInt(2), r2)
    /\ danger = RAdd(dangerTime, RMul(RInt(2), r2))

\* C18: resetDanger sets dangerTime, dangerChange and danger to 0 and leaves
\* cacheRet, the cache, q, k, v, aveCarNum, r1 and r2added as they were.
C18_ResetDangerFrame ==
    [][ lastOp' = "resetDanger" =>
            /\ dangerTime' = Zero
            /\ dangerChange' = Zero
            /\ danger' = Zero
            /\ err' = ""
            /\ UNCHANGED <<cacheRet, cache, q, k, v, aveCarNum, r1,
                           r2added>> ]_vars

\* C18 witness: resetDanger has returned on a cell with a populated cache,
\* non-zero density and r1, and a boost of the current frame, whose guard
\* is still set while the danger state is zero.
C18_Witness ==
    /\ lastOp = "resetDanger"
    /\ cache # <<>>
    /\ k # Zero
    /\ aveCarNum # Zero
    /\ r1 # Zero
    /\ r2added
    /\ nBoost >= 1
    /\ dangerTime = Zero /\ dangerChange = Zero /\ danger = Zero

\* C19: once calibrate() has returned the Calibrator holds no sample and no
\* vote counter any more.
C19_AccumulatorsDiscarded ==
    (clbOp = "calibrate" /\ clbErr = "") =>
        /\ \A l \in DOMAIN clb.xyByLane : clb.xyByLane[l] = <<>>
        /\ DOMAIN clb.vxyCount = {}

\* C20: save() right after a calibrate() that returned raises nothing and
\* returns (and writes) one record per lane 1..m and no other; emgc is true
\* exactly for lanes 1 and m; (start, end) is (ymin, ymax) of
\* globalXYMinMax for a lane of y direction +1 and (ymax, ymin) for -1; len
\* is |start - end|; cells is the lane's cells list, of one entry per cell.
C20_SavedRecords ==
    [][ (clbOp = "calibrate" /\ clbErr = "" /\ clbOp' = "save") =>
            LET m == evenTop
                ymin == clb.globalXYMinMax[3]
                ymax == clb.globalXYMinMax[4]
                cellCount == Len(cutPts(ymin, ymax, cellLen)) - 1
            IN  /\ clbErr' = ""
                /\ DOMAIN clbRet' = 1..m
                /\ \A id \in 1..m :
                       /\ clbRet'[id].emgc = (id \in {1, m})
                       /\ clbRet'[id].vDir = clb.vDirDict[id]
                       /\ <<clbRet'[id].start, clbRet'[id].end>> =
                              IF clb.vDirDict[id].y = 1 THEN <<ymin, ymax>>
                              ELSE <<ymax, ymin>>
                       /\ clbRet'[id].len =
                              Abs(clbRet'[id].start - clbRet'[id].end)
                       /\ clbRet'[id].cells = clb.cells[id]
                       /\ Len(clbRet'[id].cells) = cellCount ]_vars

\* C20 witness: save() has returned four records; lane 2 runs in +y from -3
\* to 0, lane 3 in -y from 0 to -3, both of length 3; lanes 1 and 4 are the
\* emergency lanes; each record has two cells.
C20_Witness ==
    /\ clbOp = "save" /\ clbErr = ""
    /\ DOMAIN clbRet = 1..4
    /\ clbRet[1].emgc /\ ~clbRet[2].emgc /\ ~clbRet[3].emgc /\ clbRet[4].emgc
    /\ clbRet[2].start = -3 /\ clbRet[2].end = 0 /\ clbRet[2].len = 3
    /\ clbRet[3].start = 0 /\ clbRet[3].end = -3 /\ clbRet[3].len = 3
    /\ clbRet[2].vDir.y = 1 /\ clbRet[3].vDir.y = -1
    /\ \A id \in 1..4 : Len(clbRet[id].cells) = 2
    /\ clbRet[2].cells = <<TRUE, FALSE>>
    /\ clbRet[4].cells = <<FALSE, FALSE>>

\* The state in which steps 1 to 6 of calibrate() raise nothing: some lane
\* has a list, no list is empty, m >= 4 and every lane of 2..m-1 has a
\* vote counter.
readyForCells ==
    /\ clb.keys # <<>>
    /\ \A l \in DOMAIN clb.xyByLane : clb.xyByLane[l] # <<>>
    /\ nextTop >= 4
    /\ \A id \in 2..(nextTop - 1) : id \in DOMAIN clb.vxyCount

\* C21: a calibrate() that reaches the cell partition assigns every sample
\* to a cell, also the sample whose y is the global maximum: the call
\* raises nothing, and afterwards every lane's cells list has one entry per
\* interval of the cut points.
C21_EverySampleInACell ==
    [][ (clbOp' = "calibrate" /\ readyForCells) =>
            /\ clbErr' = ""
            /\ \A id \in 1..nextTop :
                   Len(clb'.cells[id]) =
                       Len(cutPts(clb'.globalXYMinMax[3],
                                  clb'.globalXYMinMax[4], cellLen)) - 1 ]_vars

\* The samples of a list, and of all lists, as a set.
pointsOf(l) == {clb.xyByLane[l][j] : j \in 1..Len(clb.xyByLane[l])}
allPoints == UNION {pointsOf(l) : l \in DOMAIN clb.xyByLane}

\* [xmin, xmax, ymin, ymax] of a non-empty set of points.
boxOf(S) ==
    <<CHOOSE a \in {p[1] : p \in S} : \A p \in S : a <= p[1],
      CHOOSE a \in {p[1] : p \in S} : \A p \in S : p[1] <= a,
      CHOOSE a \in {p[2] : p \in S} : \A p \in S : a <= p[2],
      CHOOSE a \in {p[2] : p \in S} : \A p \in S : p[2] <= a>>

\* The last call was a calibrate() whose bounding-box step has gone over
\* every lane that has samples.
boxed ==
    /\ clbOp = "calibrate"
    /\ clbErr \notin {"ValueError", "KeyError"}
    /\ DOMAIN clb.xyMinMax = {l \in DOMAIN clb.xyByLane : pointsOf(l) # {}}

\* C22: once calibrate() has computed the bounding boxes, each lane's box
\* is the min/max of x and y over that lane's samples and the global box is
\* the min/max over the samples of all lanes.
C22_BoundingBox ==
    boxed =>
        /\ \A l \in DOMAIN clb.xyMinMax : clb.xyMinMax[l] = boxOf(pointsOf(l))
        /\ clb.globalXYMinMax = boxOf(allPoints)

\* The last calibrate() got through step 2: it found the lanes (no
\* ValueError) and lanes 2 and m-1 both have a list (no KeyError there;
\* the later steps add lists but remove none).
innerOuterDone ==
    /\ clbOp = "calibrate"
    /\ clbErr # "ValueError"
    /\ {2, clb.emgcIDs[2] - 1} \subseteq DOMAIN clb.xyByLane

\* intID and extID are the lanes 2 and m-1, distinct, none of them an
\* emergency lane, intID the one of smaller dispersion (lane m-1 when the
\* two dispersions are equal).
innerOuterSettled ==
    LET m == clb.emgcIDs[2]
        d2 == dbi(clb.xyByLane[2])
        dN_1 == dbi(clb.xyByLane[m - 1])
    IN  /\ {clb.intID, clb.extID} = {2, m - 1}
        /\ clb.intID # clb.extID
        /\ {clb.intID, clb.extID} \cap {clb.emgcIDs[1], m} = {}
        /\ RLess(d2, dN_1) => clb.intID = 2
        /\ RLess(dN_1, d2) => clb.intID = m - 1
        /\ d2 = dN_1 => clb.intID = m - 1

\* C23: a calibrate() that compared the dispersions of lanes 2 and m-1,
\* with m >= 4, leaves intID and extID as the two distinct non-emergency
\* lanes 2 and m-1, intID being the one whose samples have the smaller
\* dispersion.
C23_InnerOuter ==
    (innerOuterDone /\ clb.emgcIDs[2] >= 4) => innerOuterSettled

\* C23 as stated, for every observed lane set: the same without m >= 4.
C23_EveryLaneSet == innerOuterDone => innerOuterSettled

\* C23 witness: lane 2 holds the two samples (1, -3) and (0, -1), lane 3
\* five times the same point: lane 3, of dispersion 0, is the inner lane
\* and lane 2 the outer one.
C23_Witness ==
    /\ clbOp = "calibrate" /\ clbErr = ""
    /\ clb.emgcIDs = <<1, 4>>
    /\ Len(clb.xyByLane[2]) = 2
    /\ RLess(Zero, dbi(clb.xyByLane[2]))
    /\ Len(clb.xyByLane[3]) = 5
    /\ dbi(clb.xyByLane[3]) = Zero
    /\ clb.intID = 3
    /\ clb.extID = 2

\* Number of vehicles in the frames i..Len(c) of c, empty frames included
\* as frames of no vehicle.
RECURSIVE vehiclesFrom(_, _)
vehiclesFrom(c, i) ==
    IF i > Len(c) THEN 0 ELSE Len(c[i]) + vehiclesFrom(c, i + 1)

\* min(cache length, cacheRetention)
slots == IF Len(cache) <= cacheRet THEN Len(cache) ELSE cacheRet

\* C24: updateCache([]) appends the empty frame as the newest cache entry
\* and, when the cache is full, evicts the oldest frame for it; and
\* updateTraffic on a cache that is not empty sets aveCarNum to (number of
\* vehicles of all cached frames) / min(len(cache), cacheRet), empty frames
\* counted, and k to aveCarNum / len * 1000.
C24_EmptyFrameIsAnEntry ==
    [][ /\ (lastOp' = "updateCache" /\ hist' = Append(hist, <<>>))
           => /\ Len(cache) < cacheRet => cache' = Append(cache, <<>>)
              /\ Len(cache) = cacheRet
                 => cache' = Append(Tail(cache), <<>>)
        /\ (lastOp' = "updateTraffic" /\ cache # <<>>)
           => /\ err' = ""
              /\ aveCarNum'[1] * slots = vehiclesFrom(cache, 1) * aveCarNum'[2]
              /\ k'[1] * aveCarNum'[2] * len = aveCarNum'[1] * 1000 * k'[2]
      ]_vars

\* C24 witness: with cacheRet = 2, the empty third frame evicted the first
\* frame, which held vehicles; the cache is the one-vehicle second frame
\* and the empty frame, and updateTraffic has set aveCarNum = 1/2 and
\* k = 10.
C24_Witness ==
    /\ lastOp = "updateTraffic" /\ err = ""
    /\ cacheRet = 2
    /\ Len(hist) = 3
    /\ hist[1] # <<>>
    /\ hist[3] = <<>>
    /\ cache = <<hist[2], <<>>>>
    /\ Len(hist[2]) = 1
    /\ aveCarNum = Rat(1, 2)
    /\ k = RInt(10)

\* C25: a calibrate() that directly follows a calibrate() that succeeded
\* succeeds too and leaves the same lane set, emergency ids, directions,
\* bounding boxes and cell validity.
C25_CalibrateRepeatable ==
    [][ (clbOp = "calibrate" /\ clbErr = "" /\ clbOp' = "calibrate")
            => /\ clbErr' = ""
               /\ clb'.laneIDs = clb.laneIDs
               /\ clb'.emgcIDs = clb.emgcIDs
               /\ clb'.vDirDict = clb.vDirDict
               /\ clb'.xyMinMax = clb.xyMinMax
               /\ clb'.globalXYMinMax = clb.globalXYMinMax
               /\ clb'.cells = clb.cells ]_vars

C27_TimeReachesCap ==
    /\ [][ (lastOp' = "updateDanger" /\ err' = "" /\ cache[Len(cache)] = <<>>)
               => ~RLess(dangerTime', dangerTime) ]_vars
    /\ [][ (dangerTime = dangerTimeTop /\ dangerTime' # dangerTimeTop)
               => \/ /\ lastOp' = "updateDanger"
                     /\ cache # <<>>
                     /\ cache[Len(cache)] # <<>>
                  \/ lastOp' = "resetDanger" ]_vars
    /\ <>[](dangerTime = dangerTimeTop)

\* C27 witness: with r1 = 0.3, a frame with vehicles was followed by three
\* empty frames; the third updateDanger has clamped 0.9 to dangerTimeTop.
C27_Witness ==
    /\ lastOp = "updateDanger" /\ err = ""
    /\ r1 = Rat(3, 10)
    /\ Len(hist) = MaxAppends
    /\ hist[1] # <<>>
    /\ \A i \in 2..Len(hist) : hist[i] = <<>>
    /\ dangerTime = dangerTimeTop
=============================================================================
